---- MODULE Spec2Model ----
(***************************************************************************)
(* The live voice-conversation session of src/features/LiveConversation.tsx *)
(* as a state machine: the React state and refs of the component, the      *)
(* closures its callbacks capture, the devices and transports it opens,    *)
(* and one action per handler or event.                                    *)
(***************************************************************************)
EXTENDS Integers, Sequences, FiniteSets, TLC

\* ------------------------------------------------------------------ bounds
MaxSessions == 2        \* Spec: handleStart invocations that pass the guard
MaxMsgs == 2            \* Spec: inbound messages, all sessions together
MaxStarts == 1          \* SpecStop: handleStart invocations
MaxStopMsgs == 1        \* SpecStop: inbound messages
MaxChunks == 2          \* SpecPlayback: inbound audio chunks
MaxClock == 2           \* SpecPlayback: ticks of an output context's clock
MaxTextMsgs == 4        \* SpecTranscript: inbound messages
MaxBadMsgs == 2         \* SpecMalformed: inbound messages
MaxFrames == 3          \* SpecCapture: frames the capture callback produces
MaxEncoded == 1         \* SpecEncode: frames the capture callback produces
MaxBurst == 10          \* SpecBurst: inbound audio chunks
MaxBurstClock == 1      \* SpecBurst: ticks of the output clock
MaxRaisingChunks == 1   \* SpecRaising: inbound audio chunks
MaxSendFrames == 2      \* SpecSend: frames the capture callback produces
MaxEvents == 3          \* SpecEvents: inbound messages
MaxStored == 2          \* SpecHistory: items in storage before the mount
MaxItems == 3           \* SpecHistory: items in the list
MaxWavSamples == 2      \* SpecWav: samples of the exported buffer

Sessions == 1..MaxSessions

\* --------------------------------------------------------------- text values
\* Text is a sequence of characters; " " is the only whitespace used.
He == <<"H", "e">>
llo == <<"l", "l", "o">>
Hi == <<"H", "i">>
Blank == <<" ">>

IsSpace(c) == c = " "

RECURSIVE TrimStart(_)
TrimStart(t) ==
    IF t = <<>> THEN <<>>
    ELSE IF IsSpace(Head(t)) THEN TrimStart(Tail(t)) ELSE t

RECURSIVE TrimEnd(_)
TrimEnd(t) ==
    IF t = <<>> THEN <<>>
    ELSE IF IsSpace(t[Len(t)]) THEN TrimEnd(SubSeq(t, 1, Len(t) - 1)) ELSE t

\* String.prototype.trim
Trim(t) == TrimEnd(TrimStart(t))

Max(a, b) == IF a >= b THEN a ELSE b

\* Saturating count of calls made on one device handle: 0, 1, "more than once".
Bump(n) == IF n = 0 THEN 1 ELSE 2

\* ------------------------------------------------------------------- state
VARIABLES
    isSessionActive,        \* useState
    transcriptionHistory,   \* useState: sequence of [source, text]
    error,                  \* useState: "none" is null
    rendered,               \* the committed render: what the closures of the
                            \* current handlers and of stopSession captured
    stale,                  \* a dependency of stopSession has a new identity
                            \* that the committed render has not seen
    mounted,
    sessionRef, mediaStreamRef, scriptProcessorRef,
    inputAudioContextRef, outputAudioContextRef,
    nextStartTimeRef, audioSourcesRef,
    currentInputTranscriptionRef, currentOutputTranscriptionRef,
    proc,                   \* position of each handleStart invocation
    closure,                \* transcript captured by the stopSession each
                            \* invocation's callbacks close over
    transport, stream, inputCtx, outputCtx, processor,
    clock,                  \* currentTime of each output context
    decoding,               \* onmessage handlers suspended in decodeAudioData
    historyItems,           \* HistoryContext: useState, newest first
    provider,               \* HistoryProvider: whether it has mounted, the
                            \* historyItems of its committed render, whether
                            \* a state update awaits a render, what mount
                            \* found in storage, whether an item was added
                            \* or the list cleared since
    localStorage,           \* the text under 'gemini-showcase-history'
    wavOut,                 \* getWav: the samples written to the WAV so far
    nMsgs,
    fragments,              \* the fragments received since the last turn
                            \* boundary, in arrival order
    started,                \* source.start calls since the last teardown
    closeCalls, trackStops, ctxCloses,
    nFrames,                \* frames produced by onaudioprocess
    pendingThen,            \* reactions registered on a session promise that
                            \* has not resolved, in registration order
    microtasks,             \* the microtask queue: reactions ready to run
    sent,                   \* sendRealtimeInput calls, in call order
    isKeySelected,          \* useVeoApiKey: useState
    stoppedWhileStarting,   \* the invocations that had called connect and not
                            \* yet stored the session when the user's stop or
                            \* the unmount ran
    endedSinceStart,        \* a session has ended by a transport error, a
                            \* remote close or a failed start since the last
                            \* click on Start
    lastOp                  \* the handler that ran last, and what it saw

vars == <<isSessionActive, transcriptionHistory, error, rendered, stale, mounted,
          sessionRef, mediaStreamRef, scriptProcessorRef,
          inputAudioContextRef, outputAudioContextRef,
          nextStartTimeRef, audioSourcesRef,
          currentInputTranscriptionRef, currentOutputTranscriptionRef,
          proc, closure, transport, stream, inputCtx, outputCtx, processor,
          clock, decoding, historyItems, provider, localStorage, wavOut,
          nMsgs, fragments,
          started, closeCalls, trackStops, ctxCloses,
          nFrames, pendingThen, microtasks, sent, isKeySelected,
          stoppedWhileStarting,
          endedSinceStart, lastOp>>

\* The whole state as one value, so that a handler that calls stopSession (and
\* a click that is followed by React's synchronous re-render) is one step.
Cur == [isSessionActive |-> isSessionActive,
        transcriptionHistory |-> transcriptionHistory,
        error |-> error, rendered |-> rendered, stale |-> stale,
        mounted |-> mounted,
        sessionRef |-> sessionRef, mediaStreamRef |-> mediaStreamRef,
        scriptProcessorRef |-> scriptProcessorRef,
        inputAudioContextRef |-> inputAudioContextRef,
        outputAudioContextRef |-> outputAudioContextRef,
        nextStartTimeRef |-> nextStartTimeRef,
        audioSourcesRef |-> audioSourcesRef,
        currentInputTranscriptionRef |-> currentInputTranscriptionRef,
        currentOutputTranscriptionRef |-> currentOutputTranscriptionRef,
        proc |-> proc, closure |-> closure, transport |-> transport,
        stream |-> stream, inputCtx |-> inputCtx, outputCtx |-> outputCtx,
        processor |-> processor, clock |-> clock, decoding |-> decoding,
        historyItems |-> historyItems, provider |-> provider,
        localStorage |-> localStorage, wavOut |-> wavOut, nMsgs |-> nMsgs,
        fragments |-> fragments, started |-> started,
        closeCalls |-> closeCalls, trackStops |-> trackStops,
        ctxCloses |-> ctxCloses, nFrames |-> nFrames,
        pendingThen |-> pendingThen, microtasks |-> microtasks,
        sent |-> sent, isKeySelected |-> isKeySelected,
        stoppedWhileStarting |-> stoppedWhileStarting,
        endedSinceStart |-> endedSinceStart, lastOp |-> lastOp]

Commit(w) ==
    /\ isSessionActive' = w.isSessionActive
    /\ transcriptionHistory' = w.transcriptionHistory
    /\ error' = w.error
    /\ rendered' = w.rendered
    /\ stale' = w.stale
    /\ mounted' = w.mounted
    /\ sessionRef' = w.sessionRef
    /\ mediaStreamRef' = w.mediaStreamRef
    /\ scriptProcessorRef' = w.scriptProcessorRef
    /\ inputAudioContextRef' = w.inputAudioContextRef
    /\ outputAudioContextRef' = w.outputAudioContextRef
    /\ nextStartTimeRef' = w.nextStartTimeRef
    /\ audioSourcesRef' = w.audioSourcesRef
    /\ currentInputTranscriptionRef' = w.currentInputTranscriptionRef
    /\ currentOutputTranscriptionRef' = w.currentOutputTranscriptionRef
    /\ proc' = w.proc
    /\ closure' = w.closure
    /\ transport' = w.transport
    /\ stream' = w.stream
    /\ inputCtx' = w.inputCtx
    /\ outputCtx' = w.outputCtx
    /\ processor' = w.processor
    /\ clock' = w.clock
    /\ decoding' = w.decoding
    /\ historyItems' = w.historyItems
    /\ provider' = w.provider
    /\ localStorage' = w.localStorage
    /\ wavOut' = w.wavOut
    /\ nMsgs' = w.nMsgs
    /\ fragments' = w.fragments
    /\ started' = w.started
    /\ closeCalls' = w.closeCalls
    /\ trackStops' = w.trackStops
    /\ ctxCloses' = w.ctxCloses
    /\ nFrames' = w.nFrames
    /\ pendingThen' = w.pendingThen
    /\ microtasks' = w.microtasks
    /\ sent' = w.sent
    /\ endedSinceStart' = w.endedSinceStart
    /\ isKeySelected' = w.isKeySelected
    /\ stoppedWhileStarting' = w.stoppedWhileStarting
    /\ lastOp' = IF w.lastOp.stops = 0
                 THEN [w.lastOp EXCEPT !.afterStop = FALSE] ELSE w.lastOp

\* lastOp: the handler that ran last (op, sess), the isSessionActive and the
\* transcriptionHistory it found (wasActive, preT), the fragments a turn
\* boundary found (frags), how often it called addHistoryItem and stopSession
\* (saved, stops), whether it called stopSession right after a step that had
\* called it (afterStop), the message of the error it was given (message),
\* whether stopSession ran while it was suspended (stopped), and the calls
\* its stopSession made, in their order, each run of stopSession opened by
\* "stopSession" (steps), whether one of those calls raised (raised), and how many
\* source.stop() calls it made (halted).
NoOp == [op |-> "none", sess |-> 0, wasActive |-> FALSE, preT |-> <<>>,
         frags |-> <<>>, saved |-> 0, stops |-> 0, afterStop |-> FALSE,
         message |-> <<>>, stopped |-> FALSE, steps |-> <<>>,
         raised |-> FALSE, halted |-> 0]

Op(w, name, s) ==
    [op |-> name, sess |-> s, wasActive |-> w.isSessionActive,
     preT |-> w.transcriptionHistory, frags |-> <<>>, saved |-> 0, stops |-> 0,
     afterStop |-> w.lastOp.stops > 0, message |-> <<>>, stopped |-> FALSE,
     steps |-> <<>>, raised |-> FALSE, halted |-> 0]

\* A stored text is a sequence of tokens; getItem of a key that was never set
\* gives null, which is falsy as the empty text is.
Null == <<>>

Token(s) == [tok |-> s]

\* JSON.stringify and JSON.parse of a list of items.
Stringify(items) ==
    <<Token("[")>> \o [i \in DOMAIN items |-> [tok |-> "item", value |-> items[i]]]
                  \o <<Token("]")>>

Parse(text) == [i \in 1 .. (Len(text) - 2) |-> text[i + 1].value]

Created == [phase |-> "created", rendered |-> <<>>, dirty |-> FALSE,
            found |-> Null, touched |-> FALSE]

Mounted == [Created EXCEPT !.phase = "mounted", !.found = Stringify(<<>>)]

\* The component after construction.
InitComponent ==
    /\ isSessionActive = FALSE
    /\ transcriptionHistory = <<>>
    /\ error = "none"
    /\ rendered = [isSessionActive |-> FALSE, transcriptionHistory |-> <<>>]
    /\ stale = FALSE
    /\ mounted = TRUE
    /\ sessionRef = 0
    /\ mediaStreamRef = 0
    /\ scriptProcessorRef = 0
    /\ inputAudioContextRef = 0
    /\ outputAudioContextRef = 0
    /\ nextStartTimeRef = 0
    /\ audioSourcesRef = {}
    /\ currentInputTranscriptionRef = <<>>
    /\ currentOutputTranscriptionRef = <<>>
    /\ proc = [s \in Sessions |-> "idle"]
    /\ closure = [s \in Sessions |-> <<>>]
    /\ transport = [s \in Sessions |-> "none"]
    /\ stream = [s \in Sessions |-> "none"]
    /\ inputCtx = [s \in Sessions |-> "none"]
    /\ outputCtx = [s \in Sessions |-> "none"]
    /\ processor = [s \in Sessions |-> "none"]
    /\ clock = [s \in Sessions |-> 0]
    /\ decoding = {}
    /\ historyItems = <<>>
    /\ wavOut = <<>>
    /\ nMsgs = 0
    /\ fragments = <<>>
    /\ started = <<>>
    /\ closeCalls = [s \in Sessions |-> 0]
    /\ trackStops = [s \in Sessions |-> 0]
    /\ ctxCloses = [s \in Sessions |-> [in |-> 0, out |-> 0]]
    /\ nFrames = 0
    /\ pendingThen = [s \in Sessions |-> <<>>]
    /\ microtasks = <<>>
    /\ sent = <<>>
    /\ endedSinceStart = FALSE
    /\ isKeySelected = FALSE
    /\ stoppedWhileStarting = {}
    /\ lastOp = NoOp

\* The conversation starts under a provider that has mounted on an empty
\* history.
Init ==
    /\ InitComponent
    /\ provider = Mounted
    /\ localStorage = Stringify(<<>>)

\* ---------------------------------------------------------------- useState
\* A state setter of a component that has unmounted does nothing.
setIsSessionActive(w, v) ==
    IF w.mounted THEN [w EXCEPT !.isSessionActive = v] ELSE w

setError(w, e) ==
    IF w.mounted THEN [w EXCEPT !.error = e] ELSE w

\* A new array is a new identity even when its contents are the same, and
\* transcriptionHistory is a dependency of stopSession.
setTranscriptionHistory(w, t) ==
    IF w.mounted THEN [w EXCEPT !.transcriptionHistory = t, !.stale = TRUE] ELSE w

\* --------------------------------------------------------- HistoryProvider
\* A state update of the provider: a new array, rendered later.
setHistoryItems(w, items) ==
    [w EXCEPT !.historyItems = items, !.provider.dirty = TRUE]

\* HistoryContext.tsx lines 19-28: the load effect.
loadEffect(w) ==
    LET storedItems == w.localStorage
    IN  IF storedItems # Null THEN setHistoryItems(w, Parse(storedItems)) ELSE w

\* HistoryContext.tsx lines 30-36: the save effect, of the render whose
\* historyItems is `captured`.
saveEffect(w, captured) ==
    [w EXCEPT !.localStorage = Stringify(captured)]

\* The effects of the first commit, in their order of declaration; both
\* belong to the first render, whose historyItems is the initial [].
mountEffects(w) == saveEffect(loadEffect(w), w.provider.rendered)

\* part_000 lines 11-18: the first render of the provider and its commit.
\* Under StrictMode a development build runs the effects of a mount a second
\* time, right after the first, before any queued state update is rendered.
mountProvider(w, development) ==
    LET w0 == [w EXCEPT !.lastOp = Op(w, "mountProvider", 0),
                        !.provider.phase = "mounted",
                        !.provider.rendered = w.historyItems,
                        !.provider.found = w.localStorage]
    IN  IF development THEN mountEffects(mountEffects(w0)) ELSE mountEffects(w0)

MountProvider(development) ==
    /\ provider.phase = "created"
    /\ Commit(mountProvider(Cur, development))

\* A render of the provider after a state update: historyItems has a new
\* identity, so the save effect runs again.
providerRender(w) ==
    LET w0 == [w EXCEPT !.lastOp = Op(w, "providerRender", 0),
                        !.provider.rendered = w.historyItems,
                        !.provider.dirty = FALSE]
    IN  saveEffect(w0, w.historyItems)

ProviderRender ==
    /\ provider.phase = "mounted"
    /\ provider.dirty
    /\ Commit(providerRender(Cur))

\* HistoryContext.tsx lines 42-44; History.tsx disables the button while the
\* rendered list is empty.
clearHistory(w) ==
    [setHistoryItems(w, <<>>) EXCEPT !.lastOp = Op(w, "clearHistory", 0),
                                    !.provider.touched = TRUE]

ClearHistory ==
    /\ provider.phase = "mounted"
    /\ provider.rendered # <<>>
    /\ Commit(clearHistory(Cur))

\* HistoryContext.addHistoryItem: the new item goes to the head. The provider
\* re-renders with a new addHistoryItem function, a dependency of stopSession.
addHistoryItem(w, transcript) ==
    [w EXCEPT !.historyItems = <<transcript>> \o @,
              !.provider.dirty = TRUE,
              !.provider.touched = TRUE,
              !.stale = w.mounted,
              !.lastOp.saved = Bump(@)]

\* A feature hands a finished item to the provider.
ItemA == <<[source |-> "user", text |-> Hi]>>
ItemB == <<[source |-> "model", text |-> Hi]>>
HistoryEntries == {ItemA, ItemB}

AddHistoryItem(item, limit) ==
    /\ provider.phase = "mounted"
    /\ Len(historyItems) < limit
    /\ Commit(addHistoryItem([Cur EXCEPT !.lastOp = Op(Cur, "addHistoryItem", 0)], item))

\* ------------------------------------------------------------- stopSession
\* closeSession without line 44: the reference to the closed session is kept.
closeSessionKeepRef(w) ==
    IF w.sessionRef # 0
    THEN [w EXCEPT !.transport[w.sessionRef] = IF @ = "open" THEN "closing" ELSE @,
                   !.closeCalls[w.sessionRef] = Bump(@),
                   !.lastOp.steps = Append(@, "close")]
    ELSE w

closeSession(w) ==
    IF w.sessionRef # 0
    THEN [w EXCEPT !.transport[w.sessionRef] = IF @ = "open" THEN "closing" ELSE @,
                   !.closeCalls[w.sessionRef] = Bump(@),
                   !.sessionRef = 0,
                   !.lastOp.steps = Append(@, "close")]
    ELSE w

disconnectProcessor(w) ==
    IF w.scriptProcessorRef # 0
    THEN [w EXCEPT !.processor[w.scriptProcessorRef] = "disconnected",
                   !.scriptProcessorRef = 0,
                   !.lastOp.steps = Append(@, "disconnect")]
    ELSE w

stopTracks(w) ==
    IF w.mediaStreamRef # 0
    THEN [w EXCEPT !.stream[w.mediaStreamRef] = "stopped",
                   !.trackStops[w.mediaStreamRef] = Bump(@),
                   !.mediaStreamRef = 0,
                   !.lastOp.steps = Append(@, "stopTracks")]
    ELSE w

closeInputContext(w) ==
    IF w.inputAudioContextRef # 0 /\ w.inputCtx[w.inputAudioContextRef] # "closed"
    THEN [w EXCEPT !.inputCtx[w.inputAudioContextRef] = "closed",
                   !.ctxCloses[w.inputAudioContextRef].in = Bump(@),
                   !.lastOp.steps = Append(@, "closeInput")]
    ELSE w

closeOutputContext(w) ==
    IF w.outputAudioContextRef # 0 /\ w.outputCtx[w.outputAudioContextRef] # "closed"
    THEN [w EXCEPT !.outputCtx[w.outputAudioContextRef] = "closed",
                   !.ctxCloses[w.outputAudioContextRef].out = Bump(@),
                   !.lastOp.steps = Append(@, "closeOutput")]
    ELSE w

\* stopAllSources without the cursor reset of line 63.
stopAllSourcesKeepCursor(w) ==
    [w EXCEPT !.audioSourcesRef = {}, !.started = <<>>,
              !.decoding = {[h EXCEPT !.stopped = TRUE] : h \in @},
              !.lastOp.steps = Append(@, "stopAll"),
              !.lastOp.halted = @ + Cardinality(w.audioSourcesRef)]

\* Lines 61-63. The handlers suspended in decodeAudioData are not touched;
\* each is marked as having been suspended when the sources were stopped.
stopAllSources(w) ==
    [w EXCEPT !.audioSourcesRef = {}, !.nextStartTimeRef = 0, !.started = <<>>,
              !.decoding = {[h EXCEPT !.stopped = TRUE] : h \in @},
              !.lastOp.steps = Append(@, "stopAll"),
              !.lastOp.halted = @ + Cardinality(w.audioSourcesRef)]

\* stopSession(saveHistory), run by a closure that captured `captured` as its
\* transcriptionHistory.
stopSession(w, saveHistory, captured) ==
    LET w0 == [w EXCEPT !.lastOp.steps = Append(@, "stopSession")]
        w1 == IF saveHistory /\ Len(captured) > 0
              THEN addHistoryItem(w0, captured) ELSE w0
        w2 == closeSession(w1)
        w3 == disconnectProcessor(w2)
        w4 == stopTracks(w3)
        w5 == closeInputContext(w4)
        w6 == closeOutputContext(w5)
        w7 == stopAllSources(w6)
    IN  [setIsSessionActive(w7, FALSE) EXCEPT !.lastOp.stops = Bump(@)]

\* stopSession in which one call raises: close() of line 43, or the first
\* source.stop() of line 61. The function has no try: the statements after
\* the raising call are not run and the exception leaves the function. A call
\* that is not made (its guard is false, the set is empty) cannot raise.
stopSessionRaising(w, saveHistory, captured, failing) ==
    LET w0 == [w EXCEPT !.lastOp.steps = Append(@, "stopSession")]
        w1 == IF saveHistory /\ Len(captured) > 0
              THEN addHistoryItem(w0, captured) ELSE w0
        atClose == [w1 EXCEPT !.closeCalls[w1.sessionRef] = Bump(@),
                              !.lastOp.steps = Append(@, "close"),
                              !.lastOp.raised = TRUE,
                              !.lastOp.stops = Bump(@)]
        w6 == closeOutputContext(closeInputContext(stopTracks(
                  disconnectProcessor(closeSession(w1)))))
        atStop == [w6 EXCEPT !.lastOp.steps = Append(@, "stopAll"),
                             !.lastOp.raised = TRUE,
                             !.lastOp.stops = Bump(@)]
    IN  IF failing = "close" /\ w1.sessionRef # 0 THEN atClose
        ELSE IF failing = "stop" /\ w6.audioSourcesRef # {} THEN atStop
        ELSE stopSession(w, saveHistory, captured)

\* ------------------------------------------------------------------ render
\* One render and commit of the component. When stopSession has a new identity
\* the effect of lines 170-172 is re-run: its cleanup calls the stopSession of
\* the previous render with saveHistory = false.
Dirty(w) == w.stale \/ w.rendered.isSessionActive # w.isSessionActive

render(w) ==
    LET next == [isSessionActive |-> w.isSessionActive,
                 transcriptionHistory |-> w.transcriptionHistory]
        w1 == [w EXCEPT !.rendered = next, !.stale = FALSE]
    IN  IF w.stale
        THEN stopSession(w1, FALSE, w.rendered.transcriptionHistory)
        ELSE w1

\* React flushes the updates of a click handler before the click returns; the
\* state the cleanup changes is rendered once more.
flushSync(w) == render(render(w))


\* ------------------------------------------------------------- handleStart
NextSession(w) == Cardinality({s \in Sessions : w.proc[s] # "idle"}) + 1

\* Lines 68-74 and the click's synchronous re-render: the guard reads the
\* isSessionActive of the render the handler belongs to; the callbacks built
\* later in this invocation close over that render's stopSession.
handleStart(w, s) ==
    LET w0 == [w EXCEPT !.lastOp = Op(w, "handleStart", s)]
        w1 == setTranscriptionHistory(setError(w0, "none"), <<>>)
        w2 == [w1 EXCEPT !.proc[s] = "getUserMedia",
                         !.closure[s] = w.rendered.transcriptionHistory,
                         !.endedSinceStart = FALSE]
    IN  IF w.rendered.isSessionActive THEN w ELSE flushSync(w2)

HandleStart(limit) ==
    /\ mounted
    /\ NextSession(Cur) <= limit
    /\ Commit(handleStart(Cur, NextSession(Cur)))

\* Lines 74-82: the stream is granted, both contexts are built, connect is
\* called and the invocation waits for the session promise.
getUserMediaResolved(w, s) ==
    [w EXCEPT !.lastOp = Op(w, "getUserMediaResolved", s),
              !.mediaStreamRef = s,
              !.stream[s] = "live",
              !.inputAudioContextRef = s,
              !.inputCtx[s] = "running",
              !.outputAudioContextRef = s,
              !.outputCtx[s] = "running",
              !.transport[s] = "connecting",
              !.proc[s] = "connect"]

GetUserMediaResolved(s) ==
    /\ proc[s] = "getUserMedia"
    /\ Commit(getUserMediaResolved(Cur, s))

\* The catch block without the setError of line 160.
startFailedSilently(w, s, reason) ==
    LET w0 == [w EXCEPT !.lastOp = Op(w, reason, s), !.proc[s] = "caught"]
    IN  stopSession(w0, FALSE, w.closure[s])

\* Lines 159-163: the catch block.
startFailed(w, s, reason) ==
    LET w0 == [w EXCEPT !.lastOp = Op(w, reason, s), !.proc[s] = "caught",
                        !.endedSinceStart = TRUE]
    IN  stopSession(setError(w0, reason), FALSE, w.closure[s])

GetUserMediaRejected(s) ==
    /\ proc[s] = "getUserMedia"
    /\ Commit(startFailed(Cur, s, "getUserMediaRejected"))

ConnectRejected(s) ==
    /\ proc[s] = "connect"
    /\ transport[s] = "connecting"
    /\ Commit(startFailed([Cur EXCEPT !.transport[s] = "failed"], s, "connectRejected"))

\* onopen without the setIsSessionActive(true) of line 86.
onopenWithoutActive(w, s) ==
    [w EXCEPT !.lastOp = Op(w, "onopen", s), !.transport[s] = "open",
              !.scriptProcessorRef = s,
              !.processor[s] = "connected"]

\* Lines 85-101: onopen.
onopen(w, s) ==
    LET w0 == [w EXCEPT !.lastOp = Op(w, "onopen", s), !.transport[s] = "open"]
    IN  [setIsSessionActive(w0, TRUE) EXCEPT !.scriptProcessorRef = s,
                                             !.processor[s] = "connected"]

OnOpen(s) ==
    /\ transport[s] = "connecting"
    /\ Commit(onopen(Cur, s))

\* Line 158: the session promise resolves once the transport has opened. The
\* continuation of the await stores the session; the reactions registered by
\* line 97 while the promise was pending become microtasks, in their order.
sessionResolved(w, s) ==
    [w EXCEPT !.lastOp = Op(w, "sessionResolved", s),
              !.sessionRef = s,
              !.proc[s] = "stored",
              !.microtasks = @ \o w.pendingThen[s],
              !.pendingThen[s] = <<>>]

SessionResolved(s) ==
    /\ proc[s] = "connect"
    /\ transport[s] \in {"open", "closing", "closed"}
    /\ Commit(sessionResolved(Cur, s))

\* --------------------------------------------------------- onaudioprocess
\* A sample is the numerator of a fraction over Unit, so that 1.0 is Unit and
\* x * 32768 is the sample over Half.
Scale == 32768
Unit == 2 * Scale
Half == Unit \div Scale

\* Conversion of a number to an integer: the fraction is dropped.
Trunc(n, d) == IF n >= 0 THEN n \div d ELSE -((-n) \div d)

\* Conversion of an integer to an Int16Array element: modulo 2^16.
ToInt16(v) == ((v + Scale) % (2 * Scale)) - Scale

\* Line 94: new Int16Array(inputData.map(x => x * 32768)), for one sample. A
\* frame of silence and, for the encoding, samples in and out of [-1, 1].
Int16Of(x) == ToInt16(Trunc(x, Half))

CaptureSamples == {0}
EncodeSamples ==
    {-(Unit + Scale), -Unit, -Scale, -1, 0, 1, Scale, Unit - 1, Unit, Unit + Scale}

\* session.sendRealtimeInput on a frame: the call finds the transport of the
\* frame's session in some state, before or after stopSession has called
\* close() on it.
deliver(w, f) ==
    [f EXCEPT !.transport = w.transport[f.sess],
              !.afterClose = w.closeCalls[f.sess] > 0]

\* onaudioprocess that calls sendRealtimeInput itself once the promise has
\* resolved, instead of going through then().
onaudioprocessSendsDirectly(w, s, x) ==
    LET f == [sess |-> s, frame |-> w.nFrames + 1, early |-> w.proc[s] # "stored",
              input |-> x, data |-> Int16Of(x),
              transport |-> "unsent", afterClose |-> FALSE]
        w0 == [w EXCEPT !.lastOp = Op(w, "onaudioprocess", s), !.nFrames = @ + 1]
    IN  IF w.proc[s] = "stored"
        THEN [w0 EXCEPT !.sent = Append(@, deliver(w0, f))]
        ELSE [w0 EXCEPT !.pendingThen[s] = Append(@, f)]

\* Lines 91-98: the frame is built and its send is registered with then() on
\* the session promise of this invocation: a reaction of a pending promise
\* waits in the promise's list, that of a resolved promise is a microtask.
onaudioprocess(w, s, x) ==
    LET f == [sess |-> s, frame |-> w.nFrames + 1, early |-> w.proc[s] # "stored",
              input |-> x, data |-> Int16Of(x),
              transport |-> "unsent", afterClose |-> FALSE]
        w0 == [w EXCEPT !.lastOp = Op(w, "onaudioprocess", s), !.nFrames = @ + 1]
    IN  IF w.proc[s] = "stored"
        THEN [w0 EXCEPT !.microtasks = Append(@, f)]
        ELSE [w0 EXCEPT !.pendingThen[s] = Append(@, f)]

\* The processor delivers audio while it is connected.
OnAudioProcess(s, x, limit) ==
    /\ processor[s] = "connected"
    /\ nFrames < limit
    /\ Commit(onaudioprocess(Cur, s, x))

\* Line 97: the oldest microtask runs session.sendRealtimeInput.
SendRealtimeInput ==
    /\ microtasks # <<>>
    /\ Commit([Cur EXCEPT !.lastOp = Op(Cur, "sendRealtimeInput", Head(microtasks).sess),
                          !.sent = Append(@, deliver(Cur, Head(microtasks))),
                          !.microtasks = Tail(@)])

\* The microtask checkpoint at the end of a task: every reaction that is ready
\* runs, in order, before the next task starts.
RECURSIVE runMicrotasks(_)
runMicrotasks(w) ==
    IF w.microtasks = <<>> THEN w
    ELSE runMicrotasks([w EXCEPT !.sent = Append(@, deliver(w, Head(w.microtasks))),
                                 !.microtasks = Tail(@)])

\* The task of an audioprocess event, with its microtask checkpoint.
OnAudioProcessTask(s, x, limit) ==
    /\ processor[s] = "connected"
    /\ nFrames < limit
    /\ Commit(runMicrotasks(onaudioprocess(Cur, s, x)))

\* Line 47 disconnects the processor and leaves its onaudioprocess handler in
\* place: an audioprocess event that the rendering thread had queued before
\* the disconnect is still delivered to the handler.
LateAudioProcess(s, x, limit) ==
    /\ processor[s] = "disconnected"
    /\ nFrames < limit
    /\ Commit(runMicrotasks([onaudioprocess(Cur, s, x)
                                EXCEPT !.lastOp.op = "lateAudioProcess"]))

\* The task in which the session promise resolves, with its checkpoint: the
\* continuation of line 158, then the reactions of line 97.
SessionResolvedTask(s) ==
    /\ proc[s] = "connect"
    /\ transport[s] \in {"open", "closing", "closed"}
    /\ Commit(runMicrotasks(sessionResolved(Cur, s)))

\* ------------------------------------------------------------------ getWav
\* part_007 lines 166-174, for one sample of the buffer: the sample is
\* clamped to [-1, 1]; the test 0.5 + sample < 0 chooses the factor; | 0 drops
\* the fraction; setInt16 stores the value modulo 2^16. The product by 32768
\* of a numerator over Unit is the numerator over Half.
wavSample(x) ==
    LET sample == IF x < -Unit THEN -Unit ELSE IF x > Unit THEN Unit ELSE x
    IN  ToInt16(IF (Unit \div 2) + sample < 0
                THEN Trunc(sample, Half)
                ELSE Trunc(sample * (Scale - 1), Unit))

\* Samples in and out of [-1, 1], the quarter and the half among them.
WavSamples == EncodeSamples \cup {-(Scale \div 2), Scale \div 2}

GetWav(x, limit) ==
    /\ Len(wavOut) < limit
    /\ Commit([Cur EXCEPT !.lastOp = Op(Cur, "getWav", 0),
                          !.wavOut = Append(@, [input |-> x, data |-> wavSample(x)])])

\* --------------------------------------------------------------- onmessage
NoAudio == [kind |-> "none", dur |-> 0]

Message(inT, outT, tc, audio) ==
    [inputTranscription |-> inT, outputTranscription |-> outT,
     turnComplete |-> tc, audio |-> audio]

\* Chunk durations, in ticks of the output clock.
Durations == {1, 2}

UserFragment(f) == Message(f, <<>>, FALSE, NoAudio)
ModelFragment(f) == Message(<<>>, f, FALSE, NoAudio)
TurnComplete == Message(<<>>, <<>>, TRUE, NoAudio)
AudioChunk(a) == Message(<<>>, <<>>, FALSE, a)

\* The inbound events of the lifecycle specifications: a fragment, a turn
\* boundary, and a turn boundary that arrives with the last fragment of its
\* turn. Audio chunks are the matter of the playback specifications.
Messages ==
    {UserFragment(Hi), TurnComplete}

StopMessages == {Message(Hi, <<>>, TRUE, NoAudio)}

\* The fragments a message carries, as the log of received fragments keeps them.
Received(m) ==
    (IF m.outputTranscription # <<>>
     THEN <<[source |-> "model", text |-> m.outputTranscription]>> ELSE <<>>)
    \o (IF m.inputTranscription # <<>>
        THEN <<[source |-> "user", text |-> m.inputTranscription]>> ELSE <<>>)

\* onTurnComplete without the two trim() calls of lines 111-112.
onTurnCompleteUntrimmed(w) ==
    LET fullInput == w.currentInputTranscriptionRef
        fullOutput == w.currentOutputTranscriptionRef
        user == IF fullInput # <<>>
                THEN <<[source |-> "user", text |-> fullInput]>> ELSE <<>>
        model == IF fullOutput # <<>>
                 THEN <<[source |-> "model", text |-> fullOutput]>> ELSE <<>>
        w1 == setTranscriptionHistory(w, w.transcriptionHistory \o user \o model)
    IN  [w1 EXCEPT !.currentInputTranscriptionRef = <<>>,
                  !.currentOutputTranscriptionRef = <<>>,
                  !.lastOp.op = "turnComplete",
                  !.lastOp.frags = w.fragments,
                  !.fragments = <<>>]

\* onTurnComplete whose updater returns the new entries alone, without the
\* ...prev of line 115.
onTurnCompleteReplaces(w) ==
    LET fullInput == Trim(w.currentInputTranscriptionRef)
        fullOutput == Trim(w.currentOutputTranscriptionRef)
        user == IF fullInput # <<>>
                THEN <<[source |-> "user", text |-> fullInput]>> ELSE <<>>
        model == IF fullOutput # <<>>
                 THEN <<[source |-> "model", text |-> fullOutput]>> ELSE <<>>
        w1 == setTranscriptionHistory(w, user \o model)
    IN  [w1 EXCEPT !.currentInputTranscriptionRef = <<>>,
                  !.currentOutputTranscriptionRef = <<>>,
                  !.lastOp.op = "turnComplete",
                  !.lastOp.frags = w.fragments,
                  !.fragments = <<>>]

\* Lines 110-122.
onTurnComplete(w) ==
    LET fullInput == Trim(w.currentInputTranscriptionRef)
        fullOutput == Trim(w.currentOutputTranscriptionRef)
        user == IF fullInput # <<>>
                THEN <<[source |-> "user", text |-> fullInput]>> ELSE <<>>
        model == IF fullOutput # <<>>
                 THEN <<[source |-> "model", text |-> fullOutput]>> ELSE <<>>
        w1 == setTranscriptionHistory(w, w.transcriptionHistory \o user \o model)
    IN  [w1 EXCEPT !.currentInputTranscriptionRef = <<>>,
                  !.currentOutputTranscriptionRef = <<>>,
                  !.lastOp.op = "turnComplete",
                  !.lastOp.frags = w.fragments,
                  !.fragments = <<>>]

\* Lines 103-108.
onFragment(w, m) ==
    [w EXCEPT !.currentOutputTranscriptionRef = @ \o m.outputTranscription,
              !.currentInputTranscriptionRef = @ \o m.inputTranscription,
              !.fragments = @ \o Received(m)]

\* beginChunk without the Math.max of line 127: the cursor is set to the clock.
beginChunkFromClock(w, s, a) ==
    LET ctx == w.outputAudioContextRef
    IN  [w EXCEPT !.nextStartTimeRef = w.clock[ctx],
                  !.decoding = @ \cup {[id |-> w.nMsgs, sess |-> s, ctx |-> ctx,
                                        kind |-> a.kind, dur |-> a.dur,
                                        at |-> w.clock[ctx],
                                        stopped |-> FALSE]}]

\* Lines 124-128: the cursor is raised to the output clock, then the handler
\* waits for decodeAudioData.
beginChunk(w, s, a) ==
    LET ctx == w.outputAudioContextRef
    IN  [w EXCEPT !.nextStartTimeRef = Max(@, w.clock[ctx]),
                  !.decoding = @ \cup {[id |-> w.nMsgs, sess |-> s, ctx |-> ctx,
                                        kind |-> a.kind, dur |-> a.dur,
                                        at |-> w.clock[ctx],
                                        stopped |-> FALSE]}]

onmessage(w, s, m) ==
    LET w0 == [w EXCEPT !.lastOp = Op(w, "onmessage", s), !.nMsgs = @ + 1]
        w1 == onFragment(w0, m)
        w2 == IF m.turnComplete THEN onTurnComplete(w1) ELSE w1
    IN  IF m.audio.kind # "none" THEN beginChunk(w2, s, m.audio) ELSE w2

OnMessage(s, m, limit) ==
    /\ transport[s] = "open"
    /\ nMsgs < limit
    /\ Commit(onmessage(Cur, s, m))

\* Lines 128-136: the handler resumes with the decoded buffer (or the decode
\* failed and the handler ends there).
\* schedule without the advance of the cursor of line 135.
scheduleWithoutAdvance(w, h) ==
    LET rec == [id |-> h.id, sess |-> h.sess, ctx |-> h.ctx,
                start |-> w.nextStartTimeRef, dur |-> h.dur,
                at |-> h.at, now |-> w.clock[h.ctx], afterStop |-> h.stopped]
    IN  [w EXCEPT !.started = Append(@, rec),
                  !.audioSourcesRef = @ \cup {rec}]

\* schedule without the add of line 136.
scheduleWithoutAdd(w, h) ==
    LET rec == [id |-> h.id, sess |-> h.sess, ctx |-> h.ctx,
                start |-> w.nextStartTimeRef, dur |-> h.dur,
                at |-> h.at, now |-> w.clock[h.ctx], afterStop |-> h.stopped]
    IN  [w EXCEPT !.started = Append(@, rec),
                  !.nextStartTimeRef = @ + h.dur]

schedule(w, h) ==
    LET rec == [id |-> h.id, sess |-> h.sess, ctx |-> h.ctx,
                start |-> w.nextStartTimeRef, dur |-> h.dur,
                at |-> h.at, now |-> w.clock[h.ctx], afterStop |-> h.stopped]
    IN  [w EXCEPT !.started = Append(@, rec),
                  !.nextStartTimeRef = @ + h.dur,
                  !.audioSourcesRef = @ \cup {rec}]

\* decodeDone that ends the session when the decode failed.
decodeDoneStopsOnFailure(w, h) ==
    LET w0 == [w EXCEPT !.lastOp = [Op(w, "decodeDone", h.sess)
                                       EXCEPT !.stopped = h.stopped],
                        !.decoding = @ \ {h}]
    IN  IF h.kind = "pcm" THEN schedule(w0, h)
        ELSE stopSession(w0, FALSE, w.closure[h.sess])

decodeDone(w, h) ==
    LET w0 == [w EXCEPT !.lastOp = [Op(w, "decodeDone", h.sess)
                                       EXCEPT !.stopped = h.stopped],
                        !.decoding = @ \ {h}]
    IN  IF h.kind = "pcm" THEN schedule(w0, h) ELSE w0

DecodeDone(h) ==
    /\ h \in decoding
    /\ Commit(decodeDone(Cur, h))

\* decodeAudioData is not under src/; as the pure function decodePCM16 of the
\* specification it does no I/O, so the handlers that await it resume in the
\* order of their calls.
DecodeDoneInOrder(h) ==
    /\ \A g \in decoding : h.id <= g.id
    /\ DecodeDone(h)

\* A source has played to its end when the clock of its context, which runs
\* only while the context does, has reached the end of its buffer.
Finished(src) ==
    /\ outputCtx[src.ctx] = "running"
    /\ clock[src.ctx] >= src.start + src.dur

\* Line 133: a source that has played to its end removes itself.
SourceEnded(src) ==
    /\ src \in audioSourcesRef
    /\ Finished(src)
    /\ Commit([Cur EXCEPT !.lastOp = Op(Cur, "ended", src.sess),
                          !.audioSourcesRef = @ \ {src}])

\* The output clock of a running context advances on its own.
Tick(c, limit) ==
    /\ outputCtx[c] = "running"
    /\ clock[c] < limit
    /\ Commit([Cur EXCEPT !.clock[c] = @ + 1])

\* ------------------------------------------------------------ useVeoApiKey
\* The hook is owned by the video feature; which feature is on screen is not
\* modelled, so its operations may run at any time. An error message is a
\* sequence of pieces of text; includes() looks for the pieces of the pattern
\* in a row.
NotFound == <<"Requested entity was not found">>
ConnectionLost == <<"connection lost">>
StaleKey == <<"404:", "Requested entity was not found">>

Includes(message, pattern) ==
    \E i \in 1 .. (Len(message) - Len(pattern) + 1) :
        SubSeq(message, i, i + Len(pattern) - 1) = pattern

\* errorHandler.ts lines 56-60.
handleApiError(w, e) ==
    IF Includes(e, NotFound) THEN [w EXCEPT !.isKeySelected = FALSE] ELSE w

\* The catch of a failed video generation hands its error to the hook.
HandleApiError(e) ==
    /\ isKeySelected \in BOOLEAN
    /\ Commit(handleApiError([Cur EXCEPT !.lastOp = Op(Cur, "handleApiError", 0)], e))

\* errorHandler.ts lines 22-37: the key is, or is not, selected.
CheckKey(hasKey) ==
    /\ hasKey \in BOOLEAN
    /\ Commit([Cur EXCEPT !.lastOp = Op(Cur, "checkKey", 0), !.isKeySelected = hasKey])

\* errorHandler.ts lines 43-54: the dialog has been opened.
SelectKey ==
    /\ isKeySelected \in BOOLEAN
    /\ Commit([Cur EXCEPT !.lastOp = Op(Cur, "selectKey", 0), !.isKeySelected = TRUE])

\* ------------------------------------------------- onerror, onclose, stop
\* Lines 139-143, given the error e. A close of the failed transport may follow.
onerror(w, s, e) ==
    LET w0 == [w EXCEPT !.lastOp = [Op(w, "onerror", s) EXCEPT !.message = e],
                        !.transport[s] = "closing",
                        !.endedSinceStart = TRUE]
    IN  stopSession(setError(w0, "sessionError"), FALSE, w.closure[s])

OnError(s, e) ==
    /\ transport[s] = "open"
    /\ Commit(onerror(Cur, s, e))

\* Lines 144-146: the transport has closed, by the remote side or after close().
onclose(w, s) ==
    LET w0 == [w EXCEPT !.lastOp = Op(w, "onclose", s),
                        !.transport[s] = "closed",
                        !.endedSinceStart = @ \/ w.transport[s] = "open"]
    IN  stopSession(w0, TRUE, w.closure[s])

OnClose(s) ==
    /\ transport[s] \in {"open", "closing"}
    /\ Commit(onclose(Cur, s))

\* The invocations of handleStart between line 82 and the end of line 158.
Connecting(w) == {s \in Sessions : w.proc[s] = "connect"}

\* Lines 166-168 and 181: the button runs handleStop while the committed
\* render shows the session active.
handleStop(w) ==
    LET w0 == [w EXCEPT !.lastOp = Op(w, "handleStop", w.sessionRef),
                        !.stoppedWhileStarting = @ \cup Connecting(w)]
    IN  flushSync(stopSession(w0, TRUE, w.rendered.transcriptionHistory))

HandleStop ==
    /\ mounted
    /\ rendered.isSessionActive
    /\ Commit(handleStop(Cur))

\* handleStop whose stopSession raises: the exception leaves the click
\* handler, and React still renders the updates made before it.
handleStopRaising(w, failing) ==
    LET w0 == [w EXCEPT !.lastOp = Op(w, "handleStop", w.sessionRef),
                        !.stoppedWhileStarting = @ \cup Connecting(w)]
    IN  flushSync(stopSessionRaising(w0, TRUE, w.rendered.transcriptionHistory,
                                     failing))

HandleStopRaising(failing) ==
    /\ mounted
    /\ rendered.isSessionActive
    /\ Commit(handleStopRaising(Cur, failing))

\* A scheduled render of updates made outside a click.
Render ==
    /\ mounted
    /\ Dirty(Cur)
    /\ Commit(render([Cur EXCEPT !.lastOp = Op(Cur, "render", 0)]))

\* Lines 170-172 on unmount: the cleanup runs and the component's state is
\* discarded with it.
unmount(w) ==
    LET w0 == [w EXCEPT !.lastOp = Op(w, "unmount", 0),
                        !.stoppedWhileStarting = @ \cup Connecting(w)]
        w1 == stopSession(w0, FALSE, w.rendered.transcriptionHistory)
    IN  [w1 EXCEPT !.mounted = FALSE,
                   !.isSessionActive = FALSE,
                   !.transcriptionHistory = <<>>,
                   !.error = "none",
                   !.rendered = [isSessionActive |-> FALSE,
                                 transcriptionHistory |-> <<>>],
                   !.stale = FALSE]

Unmount ==
    /\ mounted
    /\ Commit(unmount(Cur))

\* ------------------------------------------------------------ specifications
Lifecycle(starts) ==
    \/ HandleStart(starts)
    \/ HandleStop
    \/ Render
    \/ Unmount
    \/ \E s \in Sessions : GetUserMediaResolved(s)
    \/ \E s \in Sessions : GetUserMediaRejected(s)
    \/ \E s \in Sessions : ConnectRejected(s)
    \/ \E s \in Sessions : OnOpen(s)
    \/ \E s \in Sessions : SessionResolved(s)
    \/ \E s \in Sessions : OnError(s, ConnectionLost)
    \/ \E s \in Sessions : OnClose(s)

\* Overlapping and successive sessions and their transcription events.
Next ==
    \/ Lifecycle(MaxSessions)
    \/ \E s \in Sessions : \E m \in Messages : OnMessage(s, m, MaxMsgs)

Spec == Init /\ [][Next]_vars

\* The handlers that start and stop a session, and a turn boundary that
\* makes the transcript non-empty.
NextStop ==
    \/ Lifecycle(MaxStarts)
    \/ \E s \in Sessions : \E m \in StopMessages : OnMessage(s, m, MaxStopMsgs)

SpecStop == Init /\ [][NextStop]_vars

\* One session receiving audio chunks of every duration while the output
\* clock runs and sources play to their end.
PlaybackMessages == {AudioChunk([kind |-> "pcm", dur |-> d]) : d \in Durations}

NextPlayback ==
    \/ Lifecycle(1)
    \/ \E s \in Sessions : \E m \in PlaybackMessages : OnMessage(s, m, MaxChunks)
    \/ \E h \in decoding : DecodeDone(h)
    \/ \E src \in audioSourcesRef : SourceEnded(src)
    \/ \E c \in Sessions : Tick(c, MaxClock)

SpecPlayback == Init /\ [][NextPlayback]_vars

\* The same, with the ended event of a source that has played out delivered
\* in the end.
EndedDelivered == WF_vars(\E src \in audioSourcesRef : SourceEnded(src))

SpecPlayout == Init /\ [][NextPlayback]_vars /\ EndedDelivered

\* One session receiving transcription fragments and turn boundaries.
TranscriptMessages ==
    {UserFragment(He), UserFragment(llo), ModelFragment(Hi),
     ModelFragment(Blank), TurnComplete}

NextTranscript ==
    \/ Lifecycle(1)
    \/ \E s \in Sessions : \E m \in TranscriptMessages : OnMessage(s, m, MaxTextMsgs)

SpecTranscript == Init /\ [][NextTranscript]_vars

\* One session receiving well-formed chunks, chunks whose decode fails, and a
\* turn boundary that carries such a chunk.
MalformedMessages ==
    {AudioChunk([kind |-> "pcm", dur |-> 1]),
     AudioChunk([kind |-> "bad", dur |-> 1]),
     Message(Hi, <<>>, TRUE, [kind |-> "bad", dur |-> 1])}

NextMalformed ==
    \/ Lifecycle(1)
    \/ \E s \in Sessions : \E m \in MalformedMessages : OnMessage(s, m, MaxBadMsgs)
    \/ \E h \in decoding : DecodeDone(h)
    \/ \E src \in audioSourcesRef : SourceEnded(src)
    \/ \E c \in Sessions : Tick(c, MaxClock)

SpecMalformed == Init /\ [][NextMalformed]_vars

\* One session whose capture callback produces frames before and after the
\* session promise resolves.
NextCapture ==
    \/ Lifecycle(1)
    \/ \E s \in Sessions : \E x \in CaptureSamples : OnAudioProcess(s, x, MaxFrames)
    \/ SendRealtimeInput

SpecCapture == Init /\ [][NextCapture]_vars

\* One session whose capture callback encodes samples of every kind.
NextEncode ==
    \/ Lifecycle(1)
    \/ \E s \in Sessions : \E x \in EncodeSamples : OnAudioProcess(s, x, MaxEncoded)
    \/ SendRealtimeInput

SpecEncode == Init /\ [][NextEncode]_vars

\* One session that opens and receives a burst of chunks of one duration
\* while the output clock runs.
BurstMessages == {AudioChunk([kind |-> "pcm", dur |-> 1])}

NextBurst ==
    \/ HandleStart(1)
    \/ \E s \in Sessions : GetUserMediaResolved(s)
    \/ \E s \in Sessions : OnOpen(s)
    \/ \E s \in Sessions : SessionResolved(s)
    \/ \E s \in Sessions : \E m \in BurstMessages : OnMessage(s, m, MaxBurst)
    \/ \E h \in decoding : DecodeDoneInOrder(h)
    \/ \E c \in Sessions : Tick(c, MaxBurstClock)

SpecBurst == Init /\ [][NextBurst]_vars

\* Overlapping and successive start attempts and their ends, no inbound events.
NextStarts == Lifecycle(MaxSessions)

SpecStarts == Init /\ [][NextStarts]_vars

\* One session whose transport reports errors of both kinds, and the hook that
\* keeps whether a key is selected.
NextCredential ==
    \/ Lifecycle(1)
    \/ \E s \in Sessions : OnError(s, StaleKey)
    \/ \E e \in {StaleKey, ConnectionLost} : HandleApiError(e)
    \/ \E hasKey \in BOOLEAN : CheckKey(hasKey)
    \/ SelectKey

SpecCredential == Init /\ [][NextCredential]_vars

\* One session that plays a chunk and is stopped by a click whose teardown
\* may raise at the close of the transport or at the stop of a source.
Failures == {"close", "stop"}

NextRaising ==
    \/ Lifecycle(1)
    \/ \E s \in Sessions : \E m \in PlaybackMessages : OnMessage(s, m, MaxRaisingChunks)
    \/ \E h \in decoding : DecodeDone(h)
    \/ \E failing \in Failures : HandleStopRaising(failing)

SpecRaising == Init /\ [][NextRaising]_vars

\* One session whose capture callback produces frames before and after the
\* session promise resolves and after the teardown, every task followed by
\* its microtask checkpoint.
NextSend ==
    \/ HandleStart(1)
    \/ HandleStop
    \/ Render
    \/ Unmount
    \/ \E s \in Sessions : GetUserMediaResolved(s)
    \/ \E s \in Sessions : GetUserMediaRejected(s)
    \/ \E s \in Sessions : ConnectRejected(s)
    \/ \E s \in Sessions : OnOpen(s)
    \/ \E s \in Sessions : SessionResolvedTask(s)
    \/ \E s \in Sessions : OnError(s, ConnectionLost)
    \/ \E s \in Sessions : OnClose(s)
    \/ \E s \in Sessions : \E x \in CaptureSamples : OnAudioProcessTask(s, x, MaxSendFrames)
    \/ \E s \in Sessions : \E x \in CaptureSamples : LateAudioProcess(s, x, MaxSendFrames)

SpecSend == Init /\ [][NextSend]_vars

\* The start and stop handlers, with a transport that, once connect has been
\* called, reports Open unless the connection is rejected first.
TransportOpens == \A s \in Sessions : WF_vars(OnOpen(s))

SpecActivate == Init /\ [][NextStarts]_vars /\ TransportOpens

\* One session receiving events of every kind: fragments of both speakers,
\* audio chunks, turn boundaries, and a turn boundary that arrives with the
\* last fragment of its turn.
EventMessages ==
    {UserFragment(Hi), ModelFragment(Hi), TurnComplete,
     AudioChunk([kind |-> "pcm", dur |-> 1])} \cup StopMessages

NextEvents ==
    \/ Lifecycle(1)
    \/ \E s \in Sessions : \E m \in EventMessages : OnMessage(s, m, MaxEvents)
    \/ \E h \in decoding : DecodeDone(h)

SpecEvents == Init /\ [][NextEvents]_vars

\* The provider from its construction, on a storage that holds nothing, an
\* empty list or a list of items, in a production or a development build.
StoredLists == UNION {[1 .. n -> HistoryEntries] : n \in 0 .. MaxStored}

InitHistory ==
    /\ InitComponent
    /\ provider = Created
    /\ localStorage \in {Null} \cup {Stringify(l) : l \in StoredLists}

NextHistory ==
    \/ \E development \in BOOLEAN : MountProvider(development)
    \/ ProviderRender
    \/ ClearHistory
    \/ \E item \in HistoryEntries : AddHistoryItem(item, MaxItems)

SpecHistory == InitHistory /\ [][NextHistory]_vars

\* The export of a buffer of synthesized speech, sample by sample.
NextWav == \E x \in WavSamples : GetWav(x, MaxWavSamples)

SpecWav == Init /\ [][NextWav]_vars

\* ------------------------------------------------------------------ claims
Live(s) == stream[s] = "live"
Connected(s) == transport[s] \in {"connecting", "open"}

\* C1: in every reachable state at most one microphone stream is held live
\* and at most one transport is connecting or open: a start() issued while a
\* session is starting or active opens nothing.
AtMostOneLiveSession ==
    /\ Cardinality({s \in Sessions : Live(s)}) <= 1
    /\ Cardinality({s \in Sessions : Connected(s)}) <= 1

\* C2: an active session is ended only by the user's stop, a transport error,
\* a transport close or the unmount; handling an inbound event, and the
\* re-render it causes, leaves the session active.
OnlyStopErrorCloseEndSession ==
    (lastOp.wasActive /\ ~isSessionActive)
        => lastOp.op \in {"handleStop", "onerror", "onclose", "unmount"}

NoChunkStartsInThePast ==
    \A i \in DOMAIN started : started[i].start >= started[i].now

\* C5: a turn boundary appends the trimmed user text and then the trimmed model
\* text, each only when non-empty, and clears both accumulators; the fragments
\* "He", "llo" of the user and "Hi" of the model add {user, "Hello"} and
\* {model, "Hi"}.
RECURSIVE TextOf(_, _)
TextOf(log, who) ==
    IF log = <<>> THEN <<>>
    ELSE (IF Head(log).source = who THEN Head(log).text ELSE <<>>)
         \o TextOf(Tail(log), who)

Entry(who, text) == IF text # <<>> THEN <<[source |-> who, text |-> text]>> ELSE <<>>

Hello == <<"H", "e", "l", "l", "o">>

TurnCompleteAppendsTrimmedTurn ==
    (lastOp.op = "turnComplete" /\ mounted) =>
        /\ transcriptionHistory =
               lastOp.preT \o Entry("user", Trim(TextOf(lastOp.frags, "user")))
                           \o Entry("model", Trim(TextOf(lastOp.frags, "model")))
        /\ currentInputTranscriptionRef = <<>>
        /\ currentOutputTranscriptionRef = <<>>
        /\ (TextOf(lastOp.frags, "user") = Hello /\ TextOf(lastOp.frags, "model") = Hi)
               => transcriptionHistory =
                      lastOp.preT \o <<[source |-> "user", text |-> Hello],
                                      [source |-> "model", text |-> Hi]>>

HelloHiTurn ==
    /\ lastOp.op = "turnComplete"
    /\ mounted
    /\ SelectSeq(lastOp.frags, LAMBDA f : f.source = "user")
           = <<[source |-> "user", text |-> He], [source |-> "user", text |-> llo]>>
    /\ SelectSeq(lastOp.frags, LAMBDA f : f.source = "model")
           = <<[source |-> "model", text |-> Hi]>>
    /\ transcriptionHistory = <<[source |-> "user", text |-> Hello],
                                [source |-> "model", text |-> Hi]>>

\* C6: when the only session ever started ends by a transport close with a
\* non-empty transcript, addHistoryItem has been called exactly once.
OnlySession(s) == \A r \in Sessions \ {s} : proc[r] = "idle"

HistoryExactlyOncePerSession ==
    (lastOp.op = "onclose" /\ OnlySession(lastOp.sess) /\ lastOp.preT # <<>>)
        => Len(historyItems) = 1

\* C7: a transcript handed to addHistoryItem is the transcript as it stands
\* when the session ends.
HistoryGetsTheEndingTranscript ==
    lastOp.saved > 0 => historyItems[1] = lastOp.preT

\* C8: whatever the order and number of stopSession calls, no transport is
\* closed twice, no stream's tracks are stopped twice, no audio context is
\* closed twice, and every call leaves the session not active.
StopIsIdempotent ==
    /\ \A s \in Sessions :
        /\ closeCalls[s] <= 1
        /\ trackStops[s] <= 1
        /\ ctxCloses[s].in <= 1
        /\ ctxCloses[s].out <= 1
    /\ lastOp.stops > 0 => ~isSessionActive

\* stopSession has run right after a step that ran it, on a session whose
\* transport, stream and contexts had all been opened.
StoppedTwiceInARow ==
    /\ lastOp.stops > 0
    /\ lastOp.afterStop
    /\ \E s \in Sessions :
        /\ closeCalls[s] = 1
        /\ trackStops[s] = 1
        /\ ctxCloses[s] = [in |-> 1, out |-> 1]

\* C9: after a transport error on an active session no playback source is
\* active, no microphone stream is live, the session is not active and the
\* error text is set.
ErrorPathReleasesEverything ==
    (lastOp.op = "onerror" /\ lastOp.wasActive) =>
        /\ audioSourcesRef = {}
        /\ \A s \in Sessions : ~Live(s)
        /\ ~isSessionActive
        /\ error = "sessionError"

\* C10: after a rejected connect the invocation's stream is stopped, its two
\* contexts are closed, its transport is neither connecting nor open, the
\* session is not active and the error text is set.
FailedStartReleasesEverything ==
    (lastOp.op = "connectRejected" /\ mounted) =>
        /\ stream[lastOp.sess] = "stopped"
        /\ inputCtx[lastOp.sess] = "closed"
        /\ outputCtx[lastOp.sess] = "closed"
        /\ ~Connected(lastOp.sess)
        /\ ~isSessionActive
        /\ error = "connectRejected"

\* C11: a start attempt whose microphone request was rejected never invokes
\* connect and never attaches a processor (its session is never active), and
\* the rejection leaves the error text set and the session not active.
MicrophoneFailureNeverConnects ==
    /\ \A s \in Sessions :
        (proc[s] = "caught" /\ stream[s] = "none")
            => (transport[s] = "none" /\ processor[s] = "none")
    /\ (lastOp.op = "getUserMediaRejected" /\ mounted)
            => (error = "getUserMediaRejected" /\ ~isSessionActive)

MicrophoneRejected ==
    /\ lastOp.op = "getUserMediaRejected"
    /\ mounted
    /\ proc[lastOp.sess] = "caught"
    /\ stream[lastOp.sess] = "none"
    /\ error = "getUserMediaRejected"

\* C12: the step in which a failed decode ends its handler changes nothing but
\* the set of suspended handlers: no source is started, the cursor keeps its
\* value, the session stays as it was; the text of a message that carries
\* such a chunk is handled as that of any message, and chunks decoded later
\* are scheduled without overlap.
FailedDecodeStep ==
    /\ lastOp'.op = "decodeDone"
    /\ \E h \in decoding : h.kind = "bad" /\ decoding' = decoding \ {h}

FailedDecodeDropsOnlyTheChunk ==
    /\ [][FailedDecodeStep =>
            UNCHANGED <<isSessionActive, transcriptionHistory, error, sessionRef,
                        mediaStreamRef, scriptProcessorRef, nextStartTimeRef,
                        audioSourcesRef, started, transport, stream, inputCtx,
                        outputCtx, processor, currentInputTranscriptionRef,
                        currentOutputTranscriptionRef, historyItems>>]_vars
    /\ [](lastOp.op = "turnComplete" /\ mounted
            => transcriptionHistory =
                  lastOp.preT \o Entry("user", Trim(TextOf(lastOp.frags, "user")))
                              \o Entry("model", Trim(TextOf(lastOp.frags, "model"))))
    /\ [](\A i, j \in DOMAIN started :
            i < j => started[j].start >= started[i].start + started[i].dur)

\* The first chunk's decode failed and the second chunk, well-formed, has been
\* scheduled in the session that is still active.
GoodChunkAfterFailedDecode ==
    /\ lastOp.op = "decodeDone"
    /\ isSessionActive
    /\ nMsgs = 2
    /\ decoding = {}
    /\ Len(started) = 1
    /\ started[1].id = 2
    /\ audioSourcesRef = {started[1]}

\* C13: sendRealtimeInput is called on the frames in the order the capture
\* callback produced them, the frames produced before the session promise
\* resolved included.
FramesSentInOrderProduced ==
    \A i, j \in DOMAIN sent :
        (i < j /\ sent[i].sess = sent[j].sess) => sent[i].frame < sent[j].frame

\* A frame produced while the promise was pending and a frame produced after
\* it resolved have both been sent.
EarlyAndLateFrameSent ==
    \E i, j \in DOMAIN sent : i < j /\ sent[i].early /\ ~sent[j].early

\* The frames the capture callback has produced, sent or waiting to be sent.
Frames ==
    {sent[i] : i \in DOMAIN sent}
        \cup {microtasks[i] : i \in DOMAIN microtasks}
        \cup UNION {{pendingThen[s][i] : i \in DOMAIN pendingThen[s]} : s \in Sessions}

Clamp(x) == IF x < -Unit THEN -Unit ELSE IF x > Unit THEN Unit ELSE x

\* The 16-bit values of a sample under the asymmetric scaling: the clamped
\* sample times 32768 (negative) or 32767 (non-negative), rounded either way.
AsymmetricPcm16(x) ==
    LET c == Clamp(x)
        num == IF c < 0 THEN c ELSE c * (Scale - 1)
        den == IF c < 0 THEN Half ELSE Unit
    IN  {num \div den} \cup (IF num % den = 0 THEN {} ELSE {(num \div den) + 1})

\* C14: every encoded sample lies in [-32768, 32767] and is the clamped sample
\* scaled by 32768 (negative) or 32767 (non-negative); so 1.0 encodes to 32767
\* and -1.0 to -32768.
EncodedSampleClampedAndScaled ==
    \A f \in Frames :
        /\ f.data \in -Scale .. (Scale - 1)
        /\ f.data \in AsymmetricPcm16(f.input)

\* decodePCM16: the 16-bit value over 32768, as a numerator over Unit.
decodePCM16(e) == e * Half

Dist(a, b) == IF a >= b THEN a - b ELSE b - a

\* C15: a sample in [-1, 1] and the decoding of its encoding differ by at most
\* 1/32768, the samples 1.0 and -1.0 included.
RoundTripWithinOneStep ==
    \A f \in Frames :
        (f.input >= -Unit /\ f.input <= Unit)
            => Dist(decodePCM16(f.data), f.input) <= Half

\* Every chunk received so far has the duration of the first one started and
\* arrived before the first one's end.
BackToBackBurst ==
    /\ started # <<>>
    /\ \A h \in decoding \cup {started[i] : i \in DOMAIN started} :
        /\ h.dur = started[1].dur
        /\ h.at < started[1].start + started[1].dur

\* C16: in a burst of chunks of one duration that all arrive before the first
\* has played out, each chunk starts where the previous one ends, so n chunks
\* (10 among them) span exactly n durations from the first start to the last
\* end.
BurstSpansItsDurations ==
    BackToBackBurst =>
        /\ \A i \in DOMAIN started :
            i > 1 => started[i].start = started[i - 1].start + started[i - 1].dur
        /\ started[Len(started)].start + started[Len(started)].dur
               - started[1].start = Len(started) * started[1].dur

\* Ten chunks of a burst have been started, the last of them decoded after
\* the output clock had passed the first one's start.
TenChunkBurst ==
    /\ BackToBackBurst
    /\ Len(started) = 10
    /\ decoding = {}
    /\ started[10].now > started[1].start
    /\ started[10].start + started[10].dur - started[1].start = 10 * started[1].dur

\* C17: connect is invoked only when no session has ended by a transport
\* error, a remote close or a failed start since the user's last click on
\* Start.
NoConnectWithoutNewStart ==
    lastOp.op = "getUserMediaResolved" => ~endedSinceStart

\* C18: the step in which onerror handles an error whose message contains
\* "Requested entity was not found" leaves the key not selected; the step in
\* which it handles any other error leaves the key-selected state as it was.
TransportErrorStep == lastOp'.op = "onerror" /\ transport' # transport

StaleCredentialErrorDeselectsKey ==
    [][TransportErrorStep =>
          IF Includes(lastOp'.message, NotFound)
          THEN ~isKeySelected'
          ELSE isKeySelected' = isKeySelected]_vars

\* C19: when the user's stop or the unmount ran while an invocation of start
\* had called connect and not yet stored the session, then once that
\* invocation has settled its transport is closed, its stream is stopped, its
\* processor is not attached and the session is not active.
StopDuringStartLeavesNothingOpen ==
    \A s \in stoppedWhileStarting :
        proc[s] \in {"stored", "caught"} =>
            /\ ~Connected(s)
            /\ ~Live(s)
            /\ processor[s] # "connected"
            /\ ~isSessionActive

\* C20: when a handler that was suspended in decodeAudioData while stopSession
\* ran has resumed and finished, it has started no source, the set of active
\* sources is empty and the cursor is 0.
ResumedHandlerStartsNothingAfterStop ==
    (lastOp.op = "decodeDone" /\ lastOp.stopped) =>
        /\ \A i \in DOMAIN started : ~started[i].afterStop
        /\ audioSourcesRef = {}
        /\ nextStartTimeRef = 0

\* The place of a call in the teardown: the transport, the capture processor,
\* the microphone tracks, the playback sources, the audio contexts.
TeardownRank(step) ==
    CASE step = "close" -> 1
      [] step = "disconnect" -> 2
      [] step = "stopTracks" -> 3
      [] step = "stopAll" -> 4
      [] step = "closeInput" -> 5
      [] step = "closeOutput" -> 5
      [] OTHER -> 0

SameRun(steps, i, j) == \A k \in i .. j : steps[k] # "stopSession"

\* C21: within one run of stopSession the calls are made in the order: close
\* the transport, disconnect the capture processor, stop the microphone
\* tracks, stop the playback sources, close the audio contexts.
TeardownInOrder ==
    \A i, j \in DOMAIN lastOp.steps :
        (i < j /\ SameRun(lastOp.steps, i, j))
            => TeardownRank(lastOp.steps[i]) <= TeardownRank(lastOp.steps[j])

\* C22: when a call of the teardown has raised, the handler still leaves no
\* microphone stream live, no playback source in the set, the cursor at 0 and
\* the session not active.
TeardownSurvivesFailure ==
    lastOp.raised =>
        /\ \A s \in Sessions : ~Live(s)
        /\ audioSourcesRef = {}
        /\ nextStartTimeRef = 0
        /\ ~isSessionActive

\* C23: every sendRealtimeInput call finds the transport of its session open
\* (none is made before the transport has opened) and is made before
\* stopSession has called close() on that transport.
NoSendBeforeOpenOrAfterClose ==
    \A i \in DOMAIN sent :
        /\ sent[i].transport \notin {"none", "connecting"}
        /\ ~sent[i].afterClose

Granted(s) == proc[s] = "connect" /\ transport[s] = "connecting"

Wired(s) ==
    /\ isSessionActive
    /\ transport[s] = "open"
    /\ processor[s] = "connected"
    /\ scriptProcessorRef = s

StopAllHaltsAndResets ==
    /\ [][lastOp'.stops > 0 =>
            /\ lastOp'.halted = Cardinality(audioSourcesRef)
            /\ audioSourcesRef' = {}
            /\ nextStartTimeRef' = 0]_vars
    /\ [](started # <<>> => started[1].start <= started[1].now)

\* A teardown has stopped a playing source while a later chunk was still
\* being decoded.
StoppedPlayingSource ==
    /\ lastOp.stops > 0
    /\ lastOp.halted >= 1
    /\ decoding # {}
    /\ audioSourcesRef = {}

Started == {started[i] : i \in DOMAIN started}

\* Every chunk has arrived and been decoded, and every source of the set has
\* played to its end.
PlayedOut ==
    /\ nMsgs = MaxChunks
    /\ decoding = {}
    /\ \A src \in audioSourcesRef : Finished(src)

\* C26: the set holds only sources started since the last teardown, a started
\* source is missing from it only when it has played to its end, and once
\* every chunk has played out and none is to come the set becomes empty.
ActiveSetIsStartedNotEnded ==
    /\ [](audioSourcesRef \subseteq Started)
    /\ [](\A src \in Started \ audioSourcesRef :
              clock[src.ctx] >= src.start + src.dur)
    /\ PlayedOut ~> (audioSourcesRef = {})

\* The second of two sources has removed itself after the first.
BothSourcesEnded ==
    /\ lastOp.op = "ended"
    /\ Len(started) = 2
    /\ audioSourcesRef = {}
    /\ isSessionActive

IsPrefix(a, b) == Len(a) <= Len(b) /\ SubSeq(b, 1, Len(a)) = a

\* C27: the transcript changes only at a turn boundary, at a start and at the
\* unmount; a step that is neither a start nor the unmount leaves the old
\* transcript as a prefix of the new one.
TranscriptAppendOnly ==
    [][/\ transcriptionHistory' # transcriptionHistory
            => lastOp'.op \in {"turnComplete", "handleStart", "unmount"}
       /\ lastOp'.op \notin {"handleStart", "unmount"}
            => IsPrefix(transcriptionHistory, transcriptionHistory')]_vars

\* A second turn has been appended after the first.
SecondTurnAppended ==
    /\ lastOp.op = "turnComplete"
    /\ lastOp.preT # <<>>
    /\ Len(transcriptionHistory) > Len(lastOp.preT)

\* Every invocation of start but the one that has just begun has stopped its
\* stream and has no transport connecting or open.
OthersEnded(s) ==
    \A r \in Sessions \ {s} :
        /\ proc[r] \in {"idle", "stored", "caught"}
        /\ ~Live(r)
        /\ ~Connected(r)

\* C28: when a start begins after every earlier session has ended, both
\* accumulators are empty, so the first entry of the new session holds no
\* fragment of an earlier one.
AccumulatorsEmptyAtStart ==
    (lastOp.op = "handleStart" /\ OthersEnded(lastOp.sess)) =>
        /\ currentInputTranscriptionRef = <<>>
        /\ currentOutputTranscriptionRef = <<>>

\* C29: when the mount found a non-empty list in storage, then once the mount
\* effects and the render they ask for have run, and before any item is added
\* or the list cleared, the list in memory is the stored list and storage
\* still holds it.
MountKeepsStoredHistory ==
    (/\ provider.phase = "mounted"
     /\ ~provider.dirty
     /\ ~provider.touched
     /\ provider.found # Null
     /\ Parse(provider.found) # <<>>)
        => /\ historyItems = Parse(provider.found)
           /\ localStorage = provider.found

\* C30: every exported sample is the clamped sample times 32768 when it is
\* negative and times 32767 when it is not, rounded either way.
WavSampleScaledBySign ==
    \A i \in DOMAIN wavOut : wavOut[i].data \in AsymmetricPcm16(wavOut[i].input)

====
